---------------------------- MODULE Spec2Model ----------------------------
(***************************************************************************)
(* Model of mtc2413-searcher.py: the topic parser, the scoring functions,  *)
(* the fallback IDF calculator, rerank and the query loop of main.         *)
(*                                                                         *)
(* Python floats are modelled in fixed point: the integer v stands for the *)
(* real v / SCALE.  math.log and math.exp are computed by truncated series *)
(* on that representation.                                                 *)
(***************************************************************************)
EXTENDS Integers, Sequences, FiniteSets, TLC

VARIABLES
    sx, stau, slam, sres,         \* truncated_exp_score: arguments and result
    topic, pos, qid, title,       \* parse_fire_queries: file, line index, locals
    queries,                      \* the dict parse_fire_queries builds and main walks
    provider,                     \* which idf_calculator main holds
    doc_count, term_cache,        \* FallbackIDFCalculator: fields
    idfSearches,                  \* searcher.search calls issued by get_idf so far
    ncalls, lastCall,             \* get_idf calls made directly, and the last one
    argc, ndocs,                  \* len(sys.argv); the number of documents in the index
    pc, qi,                       \* main: where it is; index of the query loop
    stdout, stderr, exitCode,     \* main: the two streams and the exit status
    retrieved,                    \* candidates the searcher has returned so far
    processed, last               \* the queries handled so far, and the last in detail

scoreVars == <<sx, stau, slam, sres>>
parseVars == <<topic, pos, qid, title, queries>>
idfVars   == <<provider, doc_count, term_cache, idfSearches>>
callVars  == <<ncalls, lastCall>>
mainVars  == <<argc, ndocs, pc, qi, stdout, stderr, exitCode, retrieved,
               processed, last>>
vars == <<scoreVars, parseVars, idfVars, callVars, mainVars>>

---------------------------------------------------------------------------
(* Fixed-point arithmetic standing for Python's float operations.          *)

SCALE == 10^3

\* The series below are summed at a finer resolution and rounded back.
FINE == 10^4

Abs(a) == IF a < 0 THEN -a ELSE a

\* Quotient and product of two reals held at resolution s (truncating
\* toward zero).
QuoAt(s, a, b) ==
    LET q == (Abs(a) * s) \div Abs(b)
    IN  IF (a < 0) = (b < 0) THEN q ELSE -q

MulAt(s, a, b) ==
    LET p == (Abs(a) * Abs(b)) \div s
    IN  IF (a < 0) = (b < 0) THEN p ELSE -p

FDiv(a, b) == QuoAt(SCALE, a, b)
FMul(a, b) == MulAt(SCALE, a, b)

\* b^k at resolution FINE, by repeated squaring.
RECURSIVE PowFine(_, _)
PowFine(b, k) ==
    IF k = 0 THEN FINE
    ELSE LET h == PowFine(b, k \div 2)
             sq == MulAt(FINE, h, h)
         IN  IF k % 2 = 0 THEN sq ELSE MulAt(FINE, sq, b)

\* e^(-f) for 0 <= f <= 1 at resolution FINE, by its Taylor series.
ExpNegUnit(f) ==
    LET p2 == MulAt(FINE, f, f)
        p3 == MulAt(FINE, p2, f)
        p4 == MulAt(FINE, p3, f)
        p5 == MulAt(FINE, p4, f)
        p6 == MulAt(FINE, p5, f)
        p7 == MulAt(FINE, p6, f)
        p8 == MulAt(FINE, p7, f)
    IN  FINE - f + p2 \div 2 - p3 \div 6 + p4 \div 24 - p5 \div 120
          + p6 \div 720 - p7 \div 5040 + p8 \div 40320

\* math.exp(-a) for a >= 0.
ExpNeg(a) ==
    LET af == a * (FINE \div SCALE)
        e  == MulAt(FINE, PowFine(ExpNegUnit(FINE), af \div FINE),
                    ExpNegUnit(af % FINE))
    IN  (e * SCALE + FINE \div 2) \div FINE

\* ln(v) for 1 <= v <= 2 at resolution FINE, as 2 * atanh((v - 1) / (v + 1)).
LnUnit(v) ==
    LET z  == QuoAt(FINE, v - FINE, v + FINE)
        z2 == MulAt(FINE, z, z)
        t3 == MulAt(FINE, z, z2)
        t5 == MulAt(FINE, t3, z2)
        t7 == MulAt(FINE, t5, z2)
        t9 == MulAt(FINE, t7, z2)
    IN  2 * (z + t3 \div 3 + t5 \div 5 + t7 \div 7 + t9 \div 9)

\* ln(v) for v >= 1 held at resolution SCALE; the result is at resolution
\* FINE.  Halving reduces v to the range of LnUnit.
RECURSIVE LnGe1(_)
LnGe1(v) == IF v > 2 * SCALE THEN LnUnit(2 * FINE) + LnGe1(v \div 2)
            ELSE LnUnit(v * (FINE \div SCALE))

\* math.log(v) for v > 0 (math.log raises ValueError for v <= 0).
Ln(v) ==
    LET l == IF v >= SCALE THEN LnGe1(v) ELSE -LnGe1((SCALE * SCALE) \div v)
    IN  QuoAt(SCALE, l, FINE)

---------------------------------------------------------------------------
(* Module-level scoring constants.                                         *)

c          == 1 * SCALE
alpha      == SCALE \div 2
tau_x      == 6 * SCALE
tau_y      == 65 * SCALE
lambda_exp == SCALE \div 2

---------------------------------------------------------------------------
(* truncated_exp_score(x, tau, lambda_)                                    *)

\* The exponential branch divides by 1 - exp(-lambda_ * tau).
truncated_exp_raises(x, tau, lambda_) ==
    /\ 0 < x
    /\ 2 * x < tau
    /\ SCALE - ExpNeg(FMul(lambda_, tau)) = 0

\* A variant whose second branch tests x < tau.
truncated_exp_score_lt(x, tau, lambda_) ==
    IF 0 < x /\ 2 * x < tau
    THEN FDiv(SCALE - ExpNeg(FMul(lambda_, x)),
              SCALE - ExpNeg(FMul(lambda_, tau)))
    ELSE IF x < tau THEN FDiv(x, tau)
    ELSE 0

truncated_exp_score(x, tau, lambda_) ==
    IF 0 < x /\ 2 * x < tau
    THEN FDiv(SCALE - ExpNeg(FMul(lambda_, x)),
              SCALE - ExpNeg(FMul(lambda_, tau)))
    ELSE IF x <= tau THEN FDiv(x, tau)
    ELSE 0

---------------------------------------------------------------------------
(* Specification of the saturation transform on its own: the arguments are *)
(* drawn from bounded sets and the function is applied to them.            *)

Taus    == {SCALE \div 2, SCALE, 3 * SCALE, tau_x, tau_y}
Lambdas == {0, SCALE \div 4, lambda_exp, SCALE, 2 * SCALE}
Xs      == {-SCALE, 0, 1}
             \cup Taus
             \cup {t \div 2 : t \in Taus} \cup {t \div 4 : t \in Taus}
             \cup {t - 1 : t \in Taus} \cup {t + 1 : t \in Taus}
             \cup {2 * t : t \in Taus}

NoResult == [called |-> FALSE, raised |-> FALSE, value |-> 0]

\* The variables of the other specifications, at rest.
IdleScore ==
    /\ sx = 0
    /\ stau = 0
    /\ slam = 0
    /\ sres = NoResult

IdleParse ==
    /\ topic = <<>>
    /\ pos = 1
    /\ qid = <<>>
    /\ title = <<>>
    /\ queries = <<>>

NoCall == [term |-> "", ret |-> 0, searched |-> FALSE]

IdleIdf ==
    /\ provider = "none"
    /\ doc_count = 0
    /\ term_cache = <<>>
    /\ idfSearches = 0

IdleCall ==
    /\ ncalls = 0
    /\ lastCall = NoCall

NoQuery == [qid |-> "", text |-> <<>>, raised |-> FALSE, hits |-> <<>>,
            docFail |-> {}, idfRaise |-> {}, reranked |-> <<>>,
            errors |-> <<>>, idfCalls |-> <<>>, cacheBefore |-> <<>>,
            searchesBefore |-> 0]

IdleMain ==
    /\ argc = 0
    /\ ndocs = 0
    /\ pc = "idle"
    /\ qi = 1
    /\ stdout = <<>>
    /\ stderr = <<>>
    /\ exitCode = <<>>
    /\ retrieved = 0
    /\ processed = <<>>
    /\ last = NoQuery

InitScore ==
    /\ IdleParse
    /\ IdleIdf
    /\ IdleCall
    /\ IdleMain
    /\ sx \in Xs
    /\ stau \in Taus
    /\ slam \in Lambdas
    /\ sres = NoResult

ApplyScore ==
    /\ ~sres.called
    /\ sres' = IF truncated_exp_raises(sx, stau, slam)
               THEN [called |-> TRUE, raised |-> TRUE, value |-> 0]
               ELSE [called |-> TRUE, raised |-> FALSE,
                     value |-> truncated_exp_score(sx, stau, slam)]
    /\ UNCHANGED <<sx, stau, slam>>
    /\ UNCHANGED <<parseVars, idfVars, callVars, mainVars>>

NextInput ==
    /\ sres.called
    /\ sx' \in Xs
    /\ stau' \in Taus
    /\ slam' \in Lambdas
    /\ sres' = NoResult
    /\ UNCHANGED <<parseVars, idfVars, callVars, mainVars>>

NextScore == ApplyScore \/ NextInput

SpecScore == InitScore /\ [][NextScore]_vars

\* C8: for every tau > 0 and every lambda, truncated_exp_score is 0 at
\* x = 0, 1 at x = tau, and 0 for every x > tau.
C8_BoundaryValues ==
    sres.called =>
        /\ stau > 0
        /\ (sx = 0 => ~sres.raised /\ sres.value = 0)
        /\ (sx = stau => ~sres.raised /\ sres.value = SCALE)
        /\ (sx > stau => ~sres.raised /\ sres.value = 0)

C8_Witness ==
    /\ sres.called
    /\ sx = stau
    /\ stau = tau_y
    /\ sres.value = SCALE

---------------------------------------------------------------------------
(* parse_fire_queries(file_path)                                           *)
(*                                                                         *)
(* A stripped line of the topic file is [kind, id, words]: kind says which *)
(* prefix test of the loop it passes ("num" for <num>, "title" for         *)
(* <title>, "end" for </top>, "other" for none); id is the identifier a    *)
(* <num> line carries, words the whitespace-separated words of the title a *)
(* <title> line carries.  A local holding None is <<>>, one holding the    *)
(* value v is <<v>>.                                                       *)

None == <<>>
Some(v) == <<v>>

NumLine(id)  == [kind |-> "num", id |-> id, words |-> <<>>]
TitleLine(w) == [kind |-> "title", id |-> "", words |-> w]
EndLine      == [kind |-> "end", id |-> "", words |-> <<>>]
OtherLine    == [kind |-> "other", id |-> "", words |-> <<>>]

\* Python truth of qid (None and "" are false) and of title.
TruthyId(o)    == o # None /\ o[1] # ""
TruthyTitle(o) == o # None /\ o[1] # <<>>

\* queries[k] = v on an insertion-ordered dict held as a sequence of pairs.
DictSet(d, k, v) ==
    IF \E i \in 1..Len(d) : d[i][1] = k
    THEN [i \in 1..Len(d) |-> IF d[i][1] = k THEN <<k, v>> ELSE d[i]]
    ELSE Append(d, <<k, v>>)

\* One iteration of "for line in f" on the locals st = [qid, title, queries].
ParseStep(st, line) ==
    IF line.kind = "num" THEN [st EXCEPT !.qid = Some(line.id)]
    ELSE IF line.kind = "title" THEN [st EXCEPT !.title = Some(line.words)]
    ELSE IF line.kind = "end" /\ TruthyId(st.qid) /\ TruthyTitle(st.title)
    THEN [qid |-> None, title |-> None,
          queries |-> DictSet(st.queries, st.qid[1], st.title[1])]
    ELSE st

RECURSIVE ParseFrom(_, _, _)
ParseFrom(lines, i, st) ==
    IF i > Len(lines) THEN st
    ELSE ParseFrom(lines, i + 1, ParseStep(st, lines[i]))

parse_fire_queries(lines) ==
    ParseFrom(lines, 1, [qid |-> None, title |-> None, queries |-> <<>>]).queries

---------------------------------------------------------------------------
(* Specification of the parser on its own: a topic file drawn from the     *)
(* bounded files below, read one line per step.                            *)

MaxLines == 4

Ids    == {"", "1", "2"}
Titles == {<<>>, <<"a">>}
Lines  == {NumLine(i) : i \in Ids} \cup {TitleLine(w) : w \in Titles}
            \cup {EndLine, OtherLine}

RECURSIVE SeqsUpTo(_, _)
SeqsUpTo(S, n) ==
    IF n = 0 THEN {<<>>}
    ELSE LET shorter == SeqsUpTo(S, n - 1)
         IN  shorter \cup {Append(q, e) : q \in shorter, e \in S}

InitParse ==
    /\ IdleScore
    /\ IdleIdf
    /\ IdleCall
    /\ IdleMain
    /\ topic \in SeqsUpTo(Lines, MaxLines)
    /\ pos = 1
    /\ qid = None
    /\ title = None
    /\ queries = <<>>

ParseLine ==
    /\ pos <= Len(topic)
    /\ LET st == ParseStep([qid |-> qid, title |-> title, queries |-> queries],
                           topic[pos])
       IN  /\ qid' = st.qid
           /\ title' = st.title
           /\ queries' = st.queries
    /\ pos' = pos + 1
    /\ UNCHANGED topic
    /\ UNCHANGED <<scoreVars, idfVars, callVars, mainVars>>

NextParse == ParseLine

SpecParse == InitParse /\ [][NextParse]_vars

\* The lines of the record that the end marker at index e closes: those
\* after the previous end marker.
RecordOf(e) ==
    {i \in 1..(e - 1) : \A j \in i..(e - 1) : topic[j].kind # "end"}

\* The step reads an end marker and emits an entry (the only step that
\* clears a captured identifier).
Emits == pos <= Len(topic) /\ topic[pos].kind = "end" /\ qid # None /\ qid' = None

\* C2: every emitted (id, text) pair has an identifier and a title that
\* were both captured inside the record being closed; a record with an
\* identifier line and no title line produces no entry.
C2_EmittedFromOwnRecord ==
    [][Emits =>
        /\ \E i \in RecordOf(pos) : topic[i] = NumLine(qid[1])
        /\ \E i \in RecordOf(pos) : topic[i] = TitleLine(title[1])]_vars

---------------------------------------------------------------------------
(* FallbackIDFCalculator                                                   *)
(*                                                                         *)
(* What a searcher.search call does is the environment's: it raises, or it *)
(* returns hits.  For the probe of _estimate_doc_count the outcome carries *)
(* the scores of the hits, for the search of get_idf their number n.       *)

DefaultDocCount == 1000000
IdfK == 100

\* int(x) of a float: truncation toward zero.
IntOf(x) == IF x >= 0 THEN x \div SCALE ELSE -((-x) \div SCALE)

\* _estimate_doc_count
EstimateDocCount(probe) ==
    IF probe.raised THEN DefaultDocCount
    ELSE IF probe.hits # <<>> THEN IntOf(probe.hits[1])
    ELSE DefaultDocCount

\* term_cache is a function from the cached terms to their idf.
CachePut(cache, term, idf) ==
    [t \in DOMAIN cache \cup {term} |-> IF t = term THEN idf ELSE cache[t]]

\* self.term_cache[term] = idf; return idf
Computed(cache, term, idf) ==
    [raised |-> FALSE, ret |-> idf, cache |-> CachePut(cache, term, idf),
     searched |-> TRUE]

\* A variant of get_idf that never consults term_cache.
FallbackGetIdfNoMemo(cache, dc, term, o) ==
    IF o.raised \/ dc + 1 <= 0
    THEN [raised |-> FALSE, ret |-> 0, cache |-> cache, searched |-> TRUE]
    ELSE Computed(cache, term, Ln(((dc + 1) * SCALE) \div (o.n + 1)))

\* get_idf on the fields (cache, dc), the search it would issue having
\* outcome o: the value returned, the cache afterwards, and whether the
\* search was issued; get_idf itself never raises.  math.log raises for a
\* ratio <= 0.
FallbackGetIdf(cache, dc, term, o) ==
    IF term \in DOMAIN cache
    THEN [raised |-> FALSE, ret |-> cache[term], cache |-> cache,
          searched |-> FALSE]
    ELSE IF o.raised \/ dc + 1 <= 0
    THEN [raised |-> FALSE, ret |-> 0, cache |-> cache, searched |-> TRUE]
    ELSE Computed(cache, term, Ln(((dc + 1) * SCALE) \div (o.n + 1)))

---------------------------------------------------------------------------
(* Specification of the fallback calculator on its own: it is constructed, *)
(* then get_idf is called with any term, in any order.                     *)

MaxCalls == 4

Terms == {"a", "b"}

Raised == [raised |-> TRUE, hits |-> <<>>, n |-> 0]
Found(scores) == [raised |-> FALSE, hits |-> scores, n |-> Len(scores)]
Counted(n) == [raised |-> FALSE, hits |-> <<>>, n |-> n]

\* The probe for "the" with k = 1: it raises, finds nothing, or returns one
\* hit with its BM25 score.
Probes == {Raised, Found(<<>>), Found(<<SCALE \div 2>>)}

\* The search for a term with k = 100: it raises, or returns 0..100 hits.
TermSearches == {Raised} \cup {Counted(n) : n \in {0, 2, 9, IdfK}}

InitIdf ==
    /\ IdleScore
    /\ IdleParse
    /\ IdleIdf
    /\ IdleCall
    /\ IdleMain

Construct ==
    /\ provider = "none"
    /\ \E probe \in Probes : doc_count' = EstimateDocCount(probe)
    /\ term_cache' = <<>>
    /\ provider' = "fallback"
    /\ UNCHANGED <<idfSearches, scoreVars, parseVars, callVars, mainVars>>

GetIdf ==
    /\ provider = "fallback"
    /\ ncalls < MaxCalls
    /\ \E term \in Terms, o \in TermSearches :
       \E r \in {FallbackGetIdf(term_cache, doc_count, term, o)} :
             /\ term_cache' = r.cache
             /\ idfSearches' = idfSearches + (IF r.searched THEN 1 ELSE 0)
             /\ lastCall' = [term |-> term, ret |-> r.ret, searched |-> r.searched]
    /\ ncalls' = ncalls + 1
    /\ UNCHANGED <<provider, doc_count, scoreVars, parseVars, mainVars>>

NextIdf == Construct \/ GetIdf

SpecIdf == InitIdf /\ [][NextIdf]_vars

\* C9: term_cache is append-only: an entry is never changed or removed, and
\* a get_idf call for a term that has an entry returns the stored value and
\* issues no retrieval call.
C9_CacheAppendOnly ==
    [][\A t \in DOMAIN term_cache :
          /\ t \in DOMAIN term_cache'
          /\ term_cache'[t] = term_cache[t]
          /\ (ncalls' = ncalls + 1 /\ lastCall'.term = t) =>
                /\ lastCall'.ret = term_cache[t]
                /\ ~lastCall'.searched
                /\ idfSearches' = idfSearches]_vars

C9_Witness ==
    /\ ncalls >= 2
    /\ lastCall.term \in DOMAIN term_cache
    /\ ~lastCall.searched
    /\ idfSearches = 1
    /\ lastCall.ret = term_cache[lastCall.term]
    /\ lastCall.ret # 0

---------------------------------------------------------------------------
(* compute_normalized_tf and the per-term weight of rerank                 *)

\* compute_normalized_tf(tf, doc_len, mean_tf); tf and doc_len are ints,
\* mean_tf is a float.
compute_normalized_tf(tf, doc_len, mean_tf) ==
    [X |-> IF mean_tf > 0
           THEN FDiv(Ln((1 + tf) * SCALE), Ln(c + mean_tf))
           ELSE 0,
     Y |-> IF doc_len > 0
           THEN tf * Ln(SCALE + (1000 * SCALE) \div doc_len)
           ELSE 0]

\* tf_map.get(term, 0) for the tf_map built from doc_words.
TfOf(doc_words, term) ==
    Cardinality({i \in 1..Len(doc_words) : doc_words[i] = term})

RECURSIVE SumTf(_, _, _)
SumTf(doc_words, terms, i) ==
    IF i > Len(terms) THEN 0
    ELSE TfOf(doc_words, terms[i]) + SumTf(doc_words, terms, i + 1)

\* mean_tf: the frequencies of the query terms found in the document,
\* summed, over the number of query terms.
MeanTf(doc_words, qterms) ==
    IF \E i \in 1..Len(qterms) : TfOf(doc_words, qterms[i]) > 0
    THEN (SumTf(doc_words, qterms, 1) * SCALE) \div Len(qterms)
    ELSE 0

\* alpha * f_xt + (1 - alpha) * f_yt for one term of the query.
TermWeight(tf, doc_len, mean_tf) ==
    LET xy   == compute_normalized_tf(tf, doc_len, mean_tf)
        f_xt == truncated_exp_score(xy.X, tau_x, lambda_exp)
        f_yt == truncated_exp_score(xy.Y, tau_y, lambda_exp)
    IN  FMul(alpha, f_xt) + FMul(SCALE - alpha, f_yt)

\* For each position of the query, tf of its term in the document and the
\* weight the term gets there.
DocTermWeights(doc_words, qterms) ==
    [i \in 1..Len(qterms) |->
        LET tf == TfOf(doc_words, qterms[i])
        IN  [tf |-> tf,
             w  |-> IF tf = 0 THEN 0
                    ELSE TermWeight(tf, Len(doc_words),
                                    MeanTf(doc_words, qterms))]]

---------------------------------------------------------------------------
(* The index and the topic files main is run on.                           *)

TopN    == 1000
SearchK == 2000

\* raw().split() of the documents; document d of the index holds
\* Contents[((d - 1) % Len(Contents)) + 1].
Contents == << <<"z">>, <<"a", "z", "a">>, <<>>, <<"b", "a">> >>

ContentOf(d) == ((d - 1) % Len(Contents)) + 1
DocWords(d) == Contents[ContentOf(d)]

\* A small index, and one with more documents than main prints per query.
SmallIndex == Len(Contents)
LargeIndex == TopN + 1

TopRecord(id, words) == <<OtherLine, NumLine(id), TitleLine(words), EndLine>>

TopicFiles ==
    { <<>>,
      TopRecord("1", <<"a">>),
      TopRecord("1", <<"b", "a">>) \o TopRecord("2", <<"a", "a">>),
      TopRecord("1", <<"a", "b">>) \o <<OtherLine, NumLine("2"), EndLine>>
         \o TopRecord("3", <<"b">>) }

QueryTexts == {<<"a">>, <<"b", "a">>, <<"a", "a">>, <<"a", "b">>, <<"b">>}

\* DocTermWeights of every query text on every document content.
WeightTable ==
    [q \in QueryTexts, k \in 1..Len(Contents) |-> DocTermWeights(Contents[k], q)]

\* What index_reader.get_idf returns when it returns: the library's value.
ExactIdf == [t \in Terms |-> IF t = "a" THEN 2 * SCALE ELSE (3 * SCALE) \div 2]

\* len(searcher.search(term, k=100)) when the search returns.
DocFreq(n, term) ==
    LET df == IF n = SmallIndex
              THEN Cardinality({d \in 1..n : TfOf(DocWords(d), term) > 0})
              ELSE n \div Len(Contents)
    IN  IF df > IdfK THEN IdfK ELSE df

---------------------------------------------------------------------------
(* rerank(query, hits, searcher, idf_calculator)                           *)
(*                                                                         *)
(* calc = [kind, dc, cache, searches] is the idf_calculator and its state; *)
(* env = [docFail, idfRaise] is what the environment does during the call: *)
(* searcher.doc(docid).raw() raises for the documents of docFail, and the  *)
(* retrieval or statistics call under get_idf raises for the terms of      *)
(* idfRaise.                                                               *)

\* idf_calculator.get_idf(term): [raised, ret, cache, searched].
IdfCall(calc, n, term, env) ==
    IF calc.kind = "exact"
    THEN [raised |-> term \in env.idfRaise,
          ret |-> IF term \in env.idfRaise THEN 0 ELSE ExactIdf[term],
          cache |-> calc.cache, searched |-> FALSE]
    ELSE FallbackGetIdf(calc.cache, calc.dc, term,
                        IF term \in env.idfRaise THEN Raised
                        ELSE Counted(DocFreq(n, term)))

\* The term loop's body from the get_idf call on, r being what the call
\* did: "score += idf * (...)", or the exception leaving the loop.
AddTerm(acc, docid, term, tw, r) ==
    IF r.raised
    THEN [acc EXCEPT !.raised = TRUE,
                     !.idfCalls = Append(@, [doc |-> docid, term |-> term,
                                             ret |-> r.ret, raised |-> TRUE])]
    ELSE [score |-> acc.score + FMul(r.ret, tw.w),
          calc |-> [acc.calc EXCEPT
                      !.cache = r.cache,
                      !.searches = @ + (IF r.searched THEN 1 ELSE 0)],
          idfCalls |-> Append(acc.idfCalls, [doc |-> docid, term |-> term,
                                             ret |-> r.ret, raised |-> FALSE]),
          raised |-> FALSE]

\* A variant of the term loop's body without the "if tf == 0: continue".
TermStepNoSkip(acc, docid, term, tw, n, env) ==
    IF acc.raised THEN acc
    ELSE AddTerm(acc, docid, term, tw, IdfCall(acc.calc, n, term, env))

\* The body of "for term in query.split()" for one term, on
\* acc = [score, calc, idfCalls, raised]; once get_idf has raised, the rest
\* of the loop does not run.
TermStep(acc, docid, term, tw, n, env) ==
    IF acc.raised THEN acc
    ELSE IF tw.tf = 0 THEN acc
    ELSE AddTerm(acc, docid, term, tw, IdfCall(acc.calc, n, term, env))

RECURSIVE TermLoop(_, _, _, _, _, _, _)
TermLoop(acc, docid, qterms, tws, i, n, env) ==
    IF i > Len(qterms) THEN acc
    ELSE TermLoop(TermStep(acc, docid, qterms[i], tws[i], n, env),
                  docid, qterms, tws, i + 1, n, env)

\* The end of the loop body, acc being what the term loop did:
\* doc_scores.append((hit.docid, score)), or the except clause.
EndOfBody(st, docid, acc) ==
    IF acc.raised
    THEN [st EXCEPT !.errors = Append(@, docid),
                    !.calc = acc.calc, !.idfCalls = acc.idfCalls]
    ELSE [st EXCEPT !.doc_scores = Append(@, <<docid, acc.score>>),
                    !.calc = acc.calc, !.idfCalls = acc.idfCalls]

\* A variant of the loop body whose except clause ends the loop ("break").
RerankStepBreak(st, qterms, docid, n, env) ==
    IF st.errors # <<>> THEN st
    ELSE IF docid \in env.docFail
    THEN [st EXCEPT !.errors = Append(@, docid)]
    ELSE EndOfBody(st, docid,
                   TermLoop([score |-> 0, calc |-> st.calc,
                             idfCalls |-> st.idfCalls, raised |-> FALSE],
                            docid, qterms,
                            WeightTable[qterms, ContentOf(docid)], 1, n, env))

\* The body of "for hit in hits" for one hit, on
\* st = [doc_scores, errors, calc, idfCalls]: errors are the documents the
\* except clause reports on standard error.
RerankStep(st, qterms, docid, n, env) ==
    IF docid \in env.docFail
    THEN [st EXCEPT !.errors = Append(@, docid)]
    ELSE EndOfBody(st, docid,
                   TermLoop([score |-> 0, calc |-> st.calc,
                             idfCalls |-> st.idfCalls, raised |-> FALSE],
                            docid, qterms,
                            WeightTable[qterms, ContentOf(docid)], 1, n, env))

\* "for hit in hits" over hits[lo..hi], in order.  The range is walked by
\* halves, the left half first, so that the nesting of the evaluation stays
\* logarithmic in the number of hits.
RECURSIVE RerankLoop(_, _, _, _, _, _, _)
RerankLoop(st, qterms, hits, lo, hi, n, env) ==
    IF lo > hi THEN st
    ELSE IF lo = hi THEN RerankStep(st, qterms, hits[lo], n, env)
    ELSE LET mid  == (lo + hi) \div 2
             left == RerankLoop(st, qterms, hits, lo, mid, n, env)
         IN  IF Len(left.doc_scores) + Len(left.errors) >= 0
             THEN RerankLoop(left, qterms, hits, mid + 1, hi, n, env)
             ELSE left

Reverse(q) == [i \in 1..Len(q) |-> q[Len(q) + 1 - i]]

MaxScore(ds) == CHOOSE m \in {ds[i][2] : i \in 1..Len(ds)} :
                    \A i \in 1..Len(ds) : ds[i][2] <= m

MinScore(ds) == CHOOSE m \in {ds[i][2] : i \in 1..Len(ds)} :
                    \A i \in 1..Len(ds) : ds[i][2] >= m

RECURSIVE SortAsc(_)
SortAsc(ds) ==
    IF ds = <<>> THEN <<>>
    ELSE LET m == MinScore(ds)
         IN  SelectSeq(ds, LAMBDA e : e[2] = m)
               \o SortAsc(SelectSeq(ds, LAMBDA e : e[2] # m))

\* A variant that sorts ascending and reverses the result.
SortDescByReversal(ds) == Reverse(SortAsc(ds))

\* doc_scores.sort(key=lambda x: x[1], reverse=True): list.sort is stable,
\* and with reverse=True elements of equal key keep their order.
RECURSIVE SortDesc(_)
SortDesc(ds) ==
    IF ds = <<>> THEN <<>>
    ELSE LET m == MaxScore(ds)
         IN  SelectSeq(ds, LAMBDA e : e[2] = m)
               \o SortDesc(SelectSeq(ds, LAMBDA e : e[2] # m))

\* rerank: the sorted doc_scores, with the calculator afterwards, the
\* documents reported on standard error and the get_idf calls made.
rerank(qterms, hits, calc, n, env) ==
    LET st == RerankLoop([doc_scores |-> <<>>, errors |-> <<>>, calc |-> calc,
                          idfCalls |-> <<>>],
                         qterms, hits, 1, Len(hits), n, env)
    IN  [st EXCEPT !.doc_scores = SortDesc(@)]

---------------------------------------------------------------------------
(* main                                                                    *)

UsageLine == [kind |-> "usage", qid |-> "", docid |-> 0, rank |-> 0, score |-> 0]

\* One line of the run: qid, Q0, docid, rank, score to four decimals, tag.
\* The score is held at the resolution of the model.
RunLine(id, docid, rank, score) ==
    [kind |-> "run", qid |-> id, docid |-> docid, rank |-> rank, score |-> score]

Min(a, b) == IF a < b THEN a ELSE b

\* A variant that numbers the lines from 0.
RunLinesFromZero(id, reranked) ==
    [i \in 1..Min(TopN, Len(reranked)) |->
        RunLine(id, reranked[i][1], i - 1, reranked[i][2])]

\* for rank, (docid, score) in enumerate(reranked[:1000], start=1): print
RunLines(id, reranked) ==
    [i \in 1..Min(TopN, Len(reranked)) |->
        RunLine(id, reranked[i][1], i, reranked[i][2])]

Diag(kind, what) == [kind |-> kind, what |-> what]

\* The choice of idf_calculator: IndexReader may have failed to import,
\* and its constructor may raise; the fallback then probes the searcher.
SelectProvider(imported, readerOk, probe) ==
    IF imported /\ readerOk
    THEN [kind |-> "exact", dc |-> 0, warned |-> FALSE]
    ELSE [kind |-> "fallback", dc |-> EstimateDocCount(probe),
          warned |-> imported]

\* A variant in which the error of a query reaches the outer handler.
AfterQueryErrorFatal(i) == [pc |-> "exited", qi |-> i, exitCode |-> <<1>>]

\* The inner except clause of the query loop: report, continue.
AfterQueryError(i) == [pc |-> "loop", qi |-> i + 1, exitCode |-> <<>>]

---------------------------------------------------------------------------
(* Specification of main.  The environment's part is bounded: what the     *)
(* searcher returns for a query, which documents cannot be fetched, and    *)
(* for which terms the call under get_idf raises.                          *)

MaxRetrieved == 3

Range(q) == {q[i] : i \in 1..Len(q)}

RECURSIVE DistinctSeqs(_, _)
DistinctSeqs(S, n) ==
    IF n = 0 THEN {<<>>}
    ELSE LET shorter == DistinctSeqs(S, n - 1)
         IN  shorter \cup
               UNION {{Append(q, e) : e \in S \ Range(q)} : q \in shorter}

ShortLists == DistinctSeqs(1..SmallIndex, Min(MaxRetrieved, SmallIndex))

LongLists == {[i \in 1..n |-> i] : n \in {TopN - 1, TopN, TopN + 1}}

\* searcher.search(query_text, k=2000) returns at most k hits, each
\* document once, in the searcher's order.
HitChoices ==
    IF ndocs = SmallIndex
    THEN {h \in ShortLists : Len(h) <= MaxRetrieved - retrieved}
    ELSE {<<>>} \cup {h \in LongLists : Len(h) <= SearchK}

FailChoices(hits) ==
    IF ndocs = SmallIndex THEN SUBSET Range(hits)
    ELSE {{}, Range(hits) \cap {2}}

RaiseChoices == {{}, {"a"}}

ArgCounts == 1..4

InitMain ==
    /\ IdleScore
    /\ IdleIdf
    /\ IdleCall
    /\ topic \in TopicFiles
    /\ pos = 1
    /\ qid = None
    /\ title = None
    /\ queries = <<>>
    /\ argc \in ArgCounts
    /\ ndocs \in {SmallIndex, LargeIndex}
    /\ pc = "start"
    /\ qi = 1
    /\ stdout = <<>>
    /\ stderr = <<>>
    /\ exitCode = <<>>
    /\ retrieved = 0
    /\ processed = <<>>
    /\ last = NoQuery

\* len(sys.argv) != 3: print the usage, sys.exit(1).
MainUsage ==
    /\ pc = "start"
    /\ argc # 3
    /\ stdout' = Append(stdout, UsageLine)
    /\ exitCode' = <<1>>
    /\ pc' = "exited"
    /\ UNCHANGED <<argc, ndocs, qi, stderr, retrieved, processed, last>>
    /\ UNCHANGED <<scoreVars, parseVars, idfVars, callVars>>

\* LuceneSearcher(index_dir) or set_bm25 raises: the outer handler.
MainFatalSearcher ==
    /\ pc = "start"
    /\ argc = 3
    /\ stderr' = Append(stderr, Diag("fatal", ""))
    /\ exitCode' = <<1>>
    /\ pc' = "exited"
    /\ UNCHANGED <<argc, ndocs, qi, stdout, retrieved, processed, last>>
    /\ UNCHANGED <<scoreVars, parseVars, idfVars, callVars>>

\* The idf_calculator is chosen, then open(query_file) raises: the outer
\* handler.
MainFatalParse ==
    /\ pc = "start"
    /\ argc = 3
    /\ \E imported \in BOOLEAN, readerOk \in BOOLEAN, probe \in Probes :
         LET p == SelectProvider(imported, readerOk, probe)
         IN  /\ provider' = p.kind
             /\ doc_count' = p.dc
             /\ stderr' = (IF p.warned THEN <<Diag("warning", "")>> ELSE <<>>)
                             \o <<Diag("fatal", "")>>
    /\ term_cache' = <<>>
    /\ exitCode' = <<1>>
    /\ pc' = "exited"
    /\ UNCHANGED <<argc, ndocs, qi, stdout, retrieved, processed, last>>
    /\ UNCHANGED <<scoreVars, parseVars, idfSearches, callVars>>

\* The searcher opens, the idf_calculator is chosen, the topics are parsed.
MainStartup ==
    /\ pc = "start"
    /\ argc = 3
    /\ \E imported \in BOOLEAN, readerOk \in BOOLEAN, probe \in Probes :
         LET p == SelectProvider(imported, readerOk, probe)
         IN  /\ provider' = p.kind
             /\ doc_count' = p.dc
             /\ stderr' = IF p.warned THEN <<Diag("warning", "")>> ELSE <<>>
    /\ term_cache' = <<>>
    /\ queries' = parse_fire_queries(topic)
    /\ pc' = "loop"
    /\ UNCHANGED <<argc, ndocs, qi, stdout, exitCode, retrieved, processed, last>>
    /\ UNCHANGED <<scoreVars, topic, pos, qid, title, idfSearches, callVars>>

\* One iteration of "for qid, query_text in queries.items()" in which
\* searcher.search raises.
QueryFails ==
    /\ pc = "loop"
    /\ qi <= Len(queries)
    /\ LET after == AfterQueryError(qi)
       IN  /\ pc' = after.pc
           /\ qi' = after.qi
           /\ exitCode' = after.exitCode
    /\ stderr' = Append(stderr, Diag(IF pc' = "loop" THEN "query" ELSE "fatal",
                                     queries[qi][1]))
    /\ processed' = Append(processed, [qid |-> queries[qi][1], ok |-> FALSE, n |-> 0])
    /\ last' = [NoQuery EXCEPT !.qid = queries[qi][1], !.text = queries[qi][2],
                               !.raised = TRUE, !.cacheBefore = term_cache,
                               !.searchesBefore = idfSearches]
    /\ UNCHANGED <<argc, ndocs, stdout, retrieved>>
    /\ UNCHANGED <<scoreVars, parseVars, idfVars, callVars>>

\* One iteration in which searcher.search returns: rerank, print.
ProcessQuery ==
    /\ pc = "loop"
    /\ qi <= Len(queries)
    /\ \E hits \in HitChoices :
       \E docFail \in FailChoices(hits), idfRaise \in RaiseChoices :
       \E r \in {rerank(queries[qi][2], hits,
                            [kind |-> provider, dc |-> doc_count,
                             cache |-> term_cache, searches |-> idfSearches],
                            ndocs,
                            [docFail |-> docFail, idfRaise |-> idfRaise])} :
         LET id   == queries[qi][1]
             text == queries[qi][2]
         IN  /\ stdout' = stdout \o RunLines(id, r.doc_scores)
             /\ stderr' = stderr \o [i \in 1..Len(r.errors) |-> Diag("doc", r.errors[i])]
             /\ term_cache' = r.calc.cache
             /\ idfSearches' = r.calc.searches
             /\ retrieved' = retrieved + (IF ndocs = SmallIndex THEN Len(hits) ELSE 0)
             /\ processed' = Append(processed,
                                    [qid |-> id, ok |-> TRUE, n |-> Len(r.doc_scores)])
             /\ last' = [qid |-> id, text |-> text, raised |-> FALSE, hits |-> hits,
                         docFail |-> docFail, idfRaise |-> idfRaise,
                         reranked |-> r.doc_scores, errors |-> r.errors,
                         idfCalls |-> r.idfCalls, cacheBefore |-> term_cache,
                         searchesBefore |-> idfSearches]
    /\ qi' = qi + 1
    /\ UNCHANGED <<argc, ndocs, pc, exitCode>>
    /\ UNCHANGED <<scoreVars, parseVars, provider, doc_count, callVars>>

\* The loop is exhausted: main returns, the process exits with status 0.
MainFinish ==
    /\ pc = "loop"
    /\ qi > Len(queries)
    /\ pc' = "done"
    /\ exitCode' = <<0>>
    /\ UNCHANGED <<argc, ndocs, qi, stdout, stderr, retrieved, processed, last>>
    /\ UNCHANGED <<scoreVars, parseVars, idfVars, callVars>>

Next ==
    \/ MainUsage
    \/ MainFatalSearcher
    \/ MainFatalParse
    \/ MainStartup
    \/ QueryFails
    \/ ProcessQuery
    \/ MainFinish

Spec == InitMain /\ [][Next]_vars

---------------------------------------------------------------------------
(* Properties of rerank and main, stated on the last query handled.        *)

Handled == last # NoQuery /\ ~last.raised

DocsOf(r) == [i \in 1..Len(r) |-> r[i][1]]

\* The documents of r that carry score s, in the order of r.
ScoreGroup(r, s) == DocsOf(SelectSeq(r, LAMBDA e : e[2] = s))

\* docs is what is left of hits when the other documents are struck out.
InOrderOf(hits, docs) ==
    \E S \in {Range(docs)} : SelectSeq(hits, LAMBDA d : d \in S) = docs

\* C1: the list rerank returns is ordered by score descending, and the
\* documents of equal score stand in it in the order they have in hits.
C1_SortedStable ==
    Handled =>
      /\ \A i \in 1..(Len(last.reranked) - 1) :
            last.reranked[i][2] >= last.reranked[i + 1][2]
      /\ \A s \in {last.reranked[i][2] : i \in 1..Len(last.reranked)} :
            InOrderOf(last.hits, ScoreGroup(last.reranked, s))

C1_Witness ==
    /\ Handled
    /\ Len(last.reranked) = 3
    /\ last.hits[3] = last.reranked[1][1]
    /\ last.reranked[1][2] > last.reranked[2][2]
    /\ last.reranked[2][2] = last.reranked[3][2]
    /\ last.reranked[2][1] > last.reranked[3][1]

\* Processing candidate d raises: its content cannot be fetched, or the
\* exact provider raises on a query term the document holds.
Failed(d) ==
    \/ d \in last.docFail
    \/ /\ provider = "exact"
       /\ \E i \in 1..Len(last.text) :
            /\ last.text[i] \in last.idfRaise
            /\ TfOf(DocWords(d), last.text[i]) > 0

\* C3: the list rerank returns holds exactly the candidates whose
\* processing did not fail, each once; the failed ones are reported and
\* the call returns (the query is handled, not failed).
C3_FailedCandidateExcluded ==
    Handled =>
      \E kept \in {Range(DocsOf(last.reranked))},
         failed \in {{d \in Range(last.hits) : Failed(d)}} :
           /\ kept = Range(last.hits) \ failed
           /\ Cardinality(kept) = Len(last.reranked)
           /\ Range(last.errors) = failed
           /\ processed[Len(processed)].ok

C3_Witness ==
    /\ Handled
    /\ Len(last.hits) >= 3
    /\ last.hits[1] \in last.docFail
    /\ ~Failed(last.hits[2])
    /\ Failed(last.hits[3])
    /\ last.hits[3] \notin last.docFail
    /\ DocsOf(last.reranked) = <<last.hits[2]>>

\* C4: a query whose processing raised has no line on standard output,
\* the loop goes on through every key of the parsed mapping in order, and
\* the process ends with status 0.
C4_FailedQuerySkipped ==
    /\ \A k \in 1..Len(processed) :
          ~processed[k].ok =>
             /\ \A i \in 1..Len(stdout) : stdout[i].qid # processed[k].qid
             /\ pc \in {"loop", "done"}
    /\ pc \in {"loop", "done"} =>
          /\ Len(processed) = qi - 1
          /\ \A k \in 1..Len(processed) : processed[k].qid = queries[k][1]
    /\ pc = "done" =>
          /\ Len(processed) = Len(queries)
          /\ exitCode = <<0>>

C4_Witness ==
    /\ pc = "done"
    /\ exitCode = <<0>>
    /\ Len(processed) = 2
    /\ ~processed[1].ok
    /\ processed[2].ok /\ processed[2].n > 0
    /\ \E i \in 1..Len(stdout) : stdout[i].qid = processed[2].qid

\* C5: when the call under get_idf fails, get_idf returns 0 and the
\* document being scored is kept: every candidate whose content could be
\* fetched is in the list rerank returns.
C5_IdfFailureKeepsDocument ==
    Handled =>
      \E kept \in {Range(DocsOf(last.reranked))} :
         \A d \in Range(last.hits) \ last.docFail : d \in kept

\* C6: with a wrong number of arguments main exits with status 1 and
\* standard output stays empty.
C6_UsageNotOnStdout ==
    (pc = "exited" /\ argc # 3) => (exitCode = <<1>> /\ stdout = <<>>)

\* C7: the lines written for a query are the first min(1000, n) entries of
\* the n reranked documents, in order, with ranks 1, 2, ...; nothing else
\* on standard output carries its identifier; a query with no candidates
\* writes nothing and the loop goes on.
C7_TopThousandRanked ==
    Handled =>
      \E m \in {Min(TopN, Len(last.reranked))} :
      \E base \in {Len(stdout) - m} :
         /\ base >= 0
         /\ \A i \in 1..base : stdout[i].qid # last.qid
         /\ \A i \in 1..m :
               stdout[base + i] =
                  [kind |-> "run", qid |-> last.qid,
                   docid |-> last.reranked[i][1], rank |-> i,
                   score |-> last.reranked[i][2]]
         /\ pc \in {"loop", "done"}

C7_Witness ==
    /\ Handled
    /\ Len(last.reranked) > TopN
    /\ Len(stdout) >= TopN
    /\ stdout[Len(stdout)].rank = TopN
    /\ stdout[Len(stdout)].docid = last.reranked[TopN][1]
    /\ \E k \in 1..(Len(processed) - 1) :
          /\ processed[k].ok
          /\ processed[k].n = 0
          /\ \A i \in 1..Len(stdout) : stdout[i].qid # processed[k].qid

QueryTermIn(d) ==
    \E i \in 1..Len(last.text) : TfOf(DocWords(d), last.text[i]) > 0

\* The idf a term had during the last query, read off the provider.
IdfSeen(t) ==
    IF provider = "exact" THEN ExactIdf[t]
    ELSE IF t \in DOMAIN term_cache THEN term_cache[t] ELSE 0

\* The sum, over the terms of q present in content k, of idf times weight.
RECURSIVE PresentSum(_, _, _)
PresentSum(q, k, i) ==
    IF i > Len(q) THEN 0
    ELSE (IF TfOf(Contents[k], q[i]) > 0
          THEN FMul(IdfSeen(q[i]), WeightTable[q, k][i].w)
          ELSE 0) + PresentSum(q, k, i + 1)

\* C10: get_idf is called only for terms present in the document being
\* scored; a score is the sum over the present terms alone, so that a
\* document holding no query term scores 0; and a term that was never
\* looked up leaves term_cache and the count of retrieval calls as they
\* were.
C10_AbsentTermNoCall ==
    Handled =>
      /\ \A i \in 1..Len(last.idfCalls) :
            TfOf(DocWords(last.idfCalls[i].doc), last.idfCalls[i].term) > 0
      /\ \E expected \in {[k \in 1..Len(Contents) |-> PresentSum(last.text, k, 1)]} :
            \A i \in 1..Len(last.reranked) :
               /\ last.reranked[i][2] = expected[ContentOf(last.reranked[i][1])]
               /\ ~QueryTermIn(last.reranked[i][1]) => last.reranked[i][2] = 0
      /\ \E called \in {{last.idfCalls[i].term : i \in 1..Len(last.idfCalls)}} :
            /\ \A t \in Terms \ called :
                  (t \in DOMAIN term_cache) = (t \in DOMAIN last.cacheBefore)
            /\ called = {} => idfSearches = last.searchesBefore
            /\ idfSearches - last.searchesBefore <= Len(last.idfCalls)

C10_Witness ==
    /\ Handled
    /\ provider = "fallback"
    /\ last.text = <<"b", "a">>
    /\ DocsOf(last.reranked) = <<2, 1>>
    /\ last.reranked[1][2] > 0
    /\ last.reranked[2][2] = 0
    /\ "a" \in DOMAIN term_cache
    /\ "b" \notin DOMAIN term_cache
    /\ idfSearches = last.searchesBefore + 1

==========================================================================
